---- MODULE Spec2Model ----
(***************************************************************************)
(* Model of windmillaipy/client.py: the WindmillClient and WorkUnit value  *)
(* objects, the module-level defaults they read from the environment, and  *)
(* the HTTP requests each public method hands to the transport.            *)
(*                                                                         *)
(* Python values: None is the string "None" (so that '{}'.format(None)     *)
(* gives "None", as in Python); an argument left out of a call is Omitted. *)
(* The HTTP transport and the server are external: each call draws the     *)
(* response it receives from the responses the server can send.            *)
(***************************************************************************)
EXTENDS Integers, Sequences, FiniteSets, TLC

VARIABLES env, defaults, client, wu, last

vars == <<env, defaults, client, wu, last>>

(* ---------------------------- bounds ----------------------------------- *)

\* most work-unit descriptors in one create_experiment response
MaxUnits == 2
\* largest work-unit id the server hands out
MaxWid == 2

(* ---------------------------- values ----------------------------------- *)

None == "None"
Omitted == "<omitted>"
NoObject == [absent |-> TRUE]

WINDMILLAI_ENDPOINT == "https://www.windmillai.com"

EnvNames == {"WINDMILLAI_API_KEY", "WINDMILLAI_ENDPOINT"}

\* process environments: nothing set; the endpoint set to the empty string;
\* both variables set
Envs ==
  { e \in UNION { [D -> {"", "envkey", "envhost"}] : D \in SUBSET EnvNames } :
      \/ DOMAIN e = {}
      \/ DOMAIN e = {"WINDMILLAI_ENDPOINT"} /\ e["WINDMILLAI_ENDPOINT"] = ""
      \/ /\ DOMAIN e = EnvNames
         /\ e["WINDMILLAI_API_KEY"] = "envkey"
         /\ e["WINDMILLAI_ENDPOINT"] = "envhost" }

ApiKeyArgs == {Omitted, "key"}
EndpointArgs == {Omitted, "endpoint"}
XIDs == {"asdf", "some xid"}
WIDs == 1..MaxWid
Names == {"some experiment"}
TagLists == {<<>>, <<"some", "tags">>}
EmptyDict == [k \in {} |-> 0]
NoList == [is_none |-> TRUE]
ParameterArgs ==
  {NoList} \cup { [is_none |-> FALSE, list |-> l] :
                    l \in {<<>>, <<[rate |-> 4], EmptyDict>>} }
Signals == {"checkpoint"}
Entries == {"note"}
Measurements == {[loss |-> 1]}
Filenames == {"snapshot.tgz"}
Contents == {"bytes"}
\* local files (by the bytes open(path, 'rb').read() gives) and directories
\* (by the tree tar.add walks); both exist and are readable
LocalFiles == {"file bytes"}
LocalDirectories == {"directory tree"}
ErrorTexts == {"", "Forbidden"}

(* -------------------------- responses ---------------------------------- *)

NoJson == [invalid |-> TRUE]

FailedResponses == { [ok |-> FALSE, text |-> t, json |-> NoJson] : t \in ErrorTexts }

OkResponse(data) == [ok |-> TRUE, text |-> "body", json |-> data]

Descriptors == { [xid |-> "asdf", wid |-> w] : w \in WIDs }

\* the work units of one experiment, in any order: no wid twice
DescriptorLists ==
  { l \in UNION { [1..n -> Descriptors] : n \in 0..MaxUnits } :
      \A i, j \in DOMAIN l : l[i].wid = l[j].wid => i = j }

CreateResponses ==
  FailedResponses \cup { OkResponse([work_units |-> l]) : l \in DescriptorLists }

ExistsResponses ==
  FailedResponses \cup { OkResponse([exists |-> b]) : b \in BOOLEAN }

ParameterResponses ==
  FailedResponses \cup { OkResponse(d) : d \in {EmptyDict, [rate |-> 4]} }

ActiveResponses ==
  FailedResponses \cup { OkResponse([active |-> b]) : b \in BOOLEAN }

PlainResponses == FailedResponses \cup { OkResponse(EmptyDict) }

(* ------------------------ python helpers ------------------------------- *)

\* os.environ.get(name): the value, or None when the variable is unset
environ_get(e, name) == IF name \in DOMAIN e THEN e[name] ELSE None

\* a or b, on strings and None
py_or(a, b) == IF a # None /\ a # "" THEN a ELSE b

\* '{}<path>'.format(endpoint)
format_url(endpoint, path) == endpoint \o path

\* json.dumps(obj): the encoded text of obj
json_dumps(obj) == [json_text_of |-> obj]

Post(url, body) == [method |-> "POST", url |-> url, kind |-> "json", body |-> body]
PostFiles(url, files) == [method |-> "POST", url |-> url, kind |-> "files", body |-> files]
Get(url, params) == [method |-> "GET", url |-> url, kind |-> "params", body |-> params]

(* ------------------------- exceptions ---------------------------------- *)

NoExc == [type |-> "none", msg |-> ""]

WindmillClientError(msg) == [type |-> "WindmillClientError", msg |-> msg]

NameError(name) == [type |-> "NameError", msg |-> "name '" \o name \o "' is not defined"]

\* variant: the error raised does not carry the response body
raise_if_error_without_body(r) ==
  IF ~r.ok THEN WindmillClientError("request failed") ELSE NoExc

raise_if_error(r) == IF ~r.ok THEN WindmillClientError(r.text) ELSE NoExc

(* ----------------------- results of a call ----------------------------- *)

NoValue == [tag |-> "<raised>"]
RetNone == [tag |-> "None"]
RetWorkUnit(w) == [tag |-> "WorkUnit", value |-> w]
RetList(l) == [tag |-> "list", value |-> l]
RetJson(d) == [tag |-> "json", value |-> d]

Returned(op, args, requests, responses, ret) ==
  [op |-> op, args |-> args, requests |-> requests, responses |-> responses,
   outcome |-> "return", exc |-> NoExc, ret |-> ret]

Raised(op, args, requests, responses, exc) ==
  [op |-> op, args |-> args, requests |-> requests, responses |-> responses,
   outcome |-> "raise", exc |-> exc, ret |-> NoValue]

(* ------------------------ construction --------------------------------- *)

\* the default values of (api_key, endpoint), as the def statement of
\* __init__ evaluates them when the class body runs
default_args(e) ==
  [api_key |-> environ_get(e, "WINDMILLAI_API_KEY"),
   endpoint |-> py_or(environ_get(e, "WINDMILLAI_ENDPOINT"), WINDMILLAI_ENDPOINT)]

bind(arg, default) == IF arg = Omitted THEN default ELSE arg

WindmillClient(api_key, endpoint) ==
  [api_key |-> bind(api_key, defaults.WindmillClient.api_key),
   endpoint |-> bind(endpoint, defaults.WindmillClient.endpoint)]

WorkUnit(xid, wid, api_key, endpoint) ==
  [xid |-> xid, wid |-> wid,
   api_key |-> bind(api_key, defaults.WorkUnit.api_key),
   endpoint |-> bind(endpoint, defaults.WorkUnit.endpoint)]

Init ==
  /\ env \in Envs
  /\ defaults = [WindmillClient |-> default_args(env), WorkUnit |-> default_args(env)]
  /\ client = NoObject
  /\ wu = NoObject
  /\ last = Returned("import", <<>>, <<>>, <<>>, RetNone)

\* the process changes its environment (os.environ[...] = ..., del os.environ[...])
setenv(e) ==
  /\ e # env
  /\ env' = e
  /\ UNCHANGED <<defaults, client, wu, last>>

WindmillClient_init(api_key, endpoint) ==
  /\ client' = WindmillClient(api_key, endpoint)
  /\ last' = Returned("WindmillClient.__init__",
                      [api_key |-> api_key, endpoint |-> endpoint], <<>>, <<>>, RetNone)
  /\ UNCHANGED <<env, defaults, wu>>

WorkUnit_init(xid, wid, api_key, endpoint) ==
  /\ wu' = WorkUnit(xid, wid, api_key, endpoint)
  /\ last' = Returned("WorkUnit.__init__",
                      [xid |-> xid, wid |-> wid, api_key |-> api_key,
                       endpoint |-> endpoint], <<>>, <<>>, RetNone)
  /\ UNCHANGED <<env, defaults, client>>


(* ----------------------- WindmillClient methods ------------------------ *)

\* variant: tags and parameters are sent whatever they are
create_experiment_request_unconditional(self, experiment_name, tags, parameters) ==
  [api_key |-> self.api_key, name |-> experiment_name, tags |-> tags,
   parameters |-> IF parameters.is_none THEN <<>> ELSE parameters.list]

create_experiment_request(self, experiment_name, tags, parameters) ==
  LET request == [api_key |-> self.api_key, name |-> experiment_name]
      with_tags == IF Len(tags) > 0
                     THEN [api_key |-> request.api_key, name |-> request.name,
                           tags |-> tags]
                     ELSE request
  IN IF ~parameters.is_none /\ Len(parameters.list) > 0
       THEN IF "tags" \in DOMAIN with_tags
              THEN [api_key |-> with_tags.api_key, name |-> with_tags.name,
                    tags |-> with_tags.tags, parameters |-> parameters.list]
              ELSE [api_key |-> with_tags.api_key, name |-> with_tags.name,
                    parameters |-> parameters.list]
       ELSE with_tags

\* variant: a uniform return shape, a list whatever its length
create_experiment_return_always_list(self, response) ==
  RetList([i \in 1..Len(response.work_units) |->
             [xid |-> response.work_units[i].xid, wid |-> response.work_units[i].wid,
              api_key |-> self.api_key, endpoint |-> self.endpoint]])

\* the value create_experiment returns for the decoded body of an ok response
create_experiment_return(self, response) ==
  IF Len(response.work_units) = 1
    THEN RetWorkUnit(WorkUnit(response.work_units[1].xid, response.work_units[1].wid,
                              self.api_key, self.endpoint))
    ELSE RetList([i \in 1..Len(response.work_units) |->
                    WorkUnit(response.work_units[i].xid, response.work_units[i].wid,
                             self.api_key, self.endpoint)])

create_experiment_call(self, experiment_name, tags, parameters, response) ==
  LET args == [experiment_name |-> experiment_name, tags |-> tags,
               parameters |-> parameters]
      url == format_url(self.endpoint, "/api/v0/create_experiment")
      sent == <<Post(url, create_experiment_request(self, experiment_name, tags,
                                                    parameters))>>
      err == raise_if_error(response)
  IN IF err # NoExc
       THEN Raised("create_experiment", args, sent, <<response>>, err)
       ELSE Returned("create_experiment", args, sent, <<response>>,
                     create_experiment_return(self, response.json))

\* variant: the answer of the existence check is not looked at
get_work_unit_call_ignoring_exists(self, xid, wid, verify_exists, response) ==
  LET args == [xid |-> xid, wid |-> wid, verify_exists |-> verify_exists]
      payload == [api_key |-> self.api_key, xid |-> xid, wid |-> wid]
      url == format_url(self.endpoint, "/api/v0/verify_work_unit_exists")
      sent == <<Get(url, payload)>>
      err == raise_if_error(response)
      handle == [xid |-> xid, wid |-> wid, api_key |-> self.api_key,
                 endpoint |-> self.endpoint]
  IN IF ~verify_exists
       THEN Returned("get_work_unit", args, <<>>, <<>>, RetWorkUnit(handle))
       ELSE IF err # NoExc
         THEN Raised("get_work_unit", args, sent, <<response>>, err)
         ELSE Returned("get_work_unit", args, sent, <<response>>, RetWorkUnit(handle))

\* variant: the existence check is made whatever verify_exists says
get_work_unit_call_always_verifying(self, xid, wid, verify_exists, response) ==
  LET args == [xid |-> xid, wid |-> wid, verify_exists |-> verify_exists]
      payload == [api_key |-> self.api_key, xid |-> xid, wid |-> wid]
      url == format_url(self.endpoint, "/api/v0/verify_work_unit_exists")
      sent == <<Get(url, payload)>>
      err == raise_if_error(response)
      handle == [xid |-> xid, wid |-> wid, api_key |-> self.api_key,
                 endpoint |-> self.endpoint]
  IN IF err # NoExc
       THEN Raised("get_work_unit", args, sent, <<response>>, err)
       ELSE IF ~response.json.exists
         THEN Raised("get_work_unit", args, sent, <<response>>,
                     WindmillClientError("A work unit corresponding to " \o xid
                                         \o "/" \o ToString(wid)
                                         \o " does not exist."))
         ELSE Returned("get_work_unit", args, sent, <<response>>, RetWorkUnit(handle))

get_work_unit_call(self, xid, wid, verify_exists, response) ==
  LET args == [xid |-> xid, wid |-> wid, verify_exists |-> verify_exists]
      payload == [api_key |-> self.api_key, xid |-> xid, wid |-> wid]
      url == format_url(self.endpoint, "/api/v0/verify_work_unit_exists")
      sent == <<Get(url, payload)>>
      err == raise_if_error(response)
  IN IF ~verify_exists
       THEN Returned("get_work_unit", args, <<>>, <<>>,
                     RetWorkUnit(WorkUnit(xid, wid, self.api_key, self.endpoint)))
       ELSE IF err # NoExc
         THEN Raised("get_work_unit", args, sent, <<response>>, err)
         ELSE IF ~response.json.exists
           THEN Raised("get_work_unit", args, sent, <<response>>,
                       WindmillClientError("A work unit corresponding to " \o xid
                                           \o "/" \o ToString(wid)
                                           \o " does not exist."))
           ELSE Returned("get_work_unit", args, sent, <<response>>,
                         RetWorkUnit(WorkUnit(xid, wid, self.api_key, self.endpoint)))

\* the handles a caller can take out of a returned value
Handles(ret) ==
  IF ret.tag = "WorkUnit" THEN {ret.value}
  ELSE IF ret.tag = "list" THEN { ret.value[i] : i \in DOMAIN ret.value }
  ELSE {}

\* wu = <call>: the caller keeps one of the returned handles, if there is one
Keep(ret) ==
  IF Handles(ret) = {}
    THEN UNCHANGED wu
    ELSE wu' \in Handles(ret)
       
create_experiment(experiment_name, tags, parameters, response) ==
  /\ client # NoObject
  /\ last' = create_experiment_call(client, experiment_name, tags, parameters, response)
  /\ Keep(last'.ret)
  /\ UNCHANGED <<env, defaults, client>>

get_work_unit(xid, wid, verify_exists, response) ==
  /\ client # NoObject
  /\ last' = get_work_unit_call(client, xid, wid, verify_exists, response)
  /\ Keep(last'.ret)
  /\ UNCHANGED <<env, defaults, client>>


(* --------------------------- WorkUnit methods -------------------------- *)

\* the names bound at module level by the import statements
ModuleGlobals == {"annotations", "json", "io", "os", "requests", "tarfile",
                  "List", "Union"}

\* a method whose body ends in _raise_if_error(<request>) and returns None
send_and_check(op, args, request, response) ==
  LET err == raise_if_error(response)
  IN IF err # NoExc
       THEN Raised(op, args, <<request>>, <<response>>, err)
       ELSE Returned(op, args, <<request>>, <<response>>, RetNone)

get_parameters_call(self, response) ==
  LET payload == [api_key |-> self.api_key, xid |-> self.xid, wid |-> self.wid]
      url == format_url(self.endpoint, "/api/v0/get_work_unit_parameters")
      err == raise_if_error(response)
  IN IF err # NoExc
       THEN Raised("get_parameters", <<>>, <<Get(url, payload)>>, <<response>>, err)
       ELSE Returned("get_parameters", <<>>, <<Get(url, payload)>>, <<response>>,
                     RetJson(response.json))

add_diary_entry_call(self, entry, response) ==
  LET request == [api_key |-> self.api_key, xid |-> self.xid, entry |-> entry]
      url == format_url(self.endpoint, "/api/v0/add_diary_entry")
  IN send_and_check("add_diary_entry", [entry |-> entry], Post(url, request), response)

record_measurements_call(self, measurements, response) ==
  LET request == [api_key |-> self.api_key, xid |-> self.xid, wid |-> self.wid,
                  measurements |-> measurements]
      url == format_url(self.endpoint, "/api/v0/add_measurements")
  IN send_and_check("record_measurements", [measurements |-> measurements],
                    Post(url, request), response)

complete_call(self, response) ==
  LET request == [api_key |-> self.api_key, xid |-> self.xid, wid |-> self.wid]
      url == format_url(self.endpoint, "/api/v0/complete_experiment")
  IN send_and_check("complete", <<>>, Post(url, request), response)

\* warnings.warn(...) looks the name warnings up in the module's globals
\* before self.complete() is reached
complete_experiment_call(self, response) ==
  IF "warnings" \notin ModuleGlobals
    THEN Raised("complete_experiment", <<>>, <<>>, <<>>, NameError("warnings"))
    ELSE [complete_call(self, response) EXCEPT !.op = "complete_experiment"]

signal_request(self, signal) ==
  [api_key |-> self.api_key, xid |-> self.xid, wid |-> self.wid, signal |-> signal]

register_signal_call(self, signal, response) ==
  send_and_check("register_signal", [signal |-> signal],
                 Post(format_url(self.endpoint, "/api/v0/register_signal"),
                      signal_request(self, signal)), response)

activate_signal_call(self, signal, response) ==
  send_and_check("activate_signal", [signal |-> signal],
                 Post(format_url(self.endpoint, "/api/v0/activate_signal"),
                      signal_request(self, signal)), response)

deactivate_signal_call(self, signal, response) ==
  send_and_check("deactivate_signal", [signal |-> signal],
                 Post(format_url(self.endpoint, "/api/v0/deactivate_signal"),
                      signal_request(self, signal)), response)

check_signal_active_call(self, signal, deactivate, response) ==
  LET args == [signal |-> signal, deactivate |-> deactivate]
      payload == [api_key |-> self.api_key, xid |-> self.xid, wid |-> self.wid,
                  signal |-> signal, clear |-> deactivate]
      url == format_url(self.endpoint, "/api/v0/check_signal_active")
      err == raise_if_error(response)
  IN IF err # NoExc
       THEN Raised("check_signal_active", args, <<Get(url, payload)>>, <<response>>, err)
       ELSE Returned("check_signal_active", args, <<Get(url, payload)>>, <<response>>,
                     RetJson(response.json.active))

\* the multipart request create_artifact posts
create_artifact_request(self, filename, contents) ==
  LET url == format_url(self.endpoint, "/api/v0/create_artifact?upload-type=multipart")
      meta == [xid |-> self.xid, wid |-> self.wid, filename |-> filename]
  IN PostFiles(url, [meta |-> json_dumps(meta), contents |-> contents])

create_artifact_call(self, filename, contents, response) ==
  send_and_check("create_artifact", [filename |-> filename, contents |-> contents],
                 create_artifact_request(self, filename, contents), response)

create_artifact_from_file_call(self, filename, local_file, response) ==
  [create_artifact_call(self, filename, local_file, response)
     EXCEPT !.op = "create_artifact_from_file",
            !.args = [filename |-> filename, local_filepath |-> local_file]]

\* the bytes of the gzipped tar archive of a directory
create_archive_from_directory(directory, filename) ==
  [tar_gz_of |-> directory, arcname |-> "."]

create_artifact_from_directory_call(self, filename, local_directory, response) ==
  LET data == create_archive_from_directory(local_directory, filename)
  IN [create_artifact_call(self, filename, data, response)
        EXCEPT !.op = "create_artifact_from_directory",
               !.args = [filename |-> filename,
                         local_directory_path |-> local_directory]]

\* variant: the fetched parameters are kept on the instance
get_parameters_caching(response) ==
  /\ wu # NoObject
  /\ last' = get_parameters_call(wu, response)
  /\ wu' = IF last'.outcome = "return"
             THEN [xid |-> wu.xid, wid |-> wu.wid, api_key |-> wu.api_key,
                   endpoint |-> wu.endpoint, parameters |-> last'.ret.value]
             ELSE wu
  /\ UNCHANGED <<env, defaults, client>>

get_parameters(response) ==
  /\ wu # NoObject
  /\ last' = get_parameters_call(wu, response)
  /\ UNCHANGED <<env, defaults, client, wu>>

add_diary_entry(entry, response) ==
  /\ wu # NoObject
  /\ last' = add_diary_entry_call(wu, entry, response)
  /\ UNCHANGED <<env, defaults, client, wu>>

record_measurements(measurements, response) ==
  /\ wu # NoObject
  /\ last' = record_measurements_call(wu, measurements, response)
  /\ UNCHANGED <<env, defaults, client, wu>>

complete(response) ==
  /\ wu # NoObject
  /\ last' = complete_call(wu, response)
  /\ UNCHANGED <<env, defaults, client, wu>>

complete_experiment(response) ==
  /\ wu # NoObject
  /\ last' = complete_experiment_call(wu, response)
  /\ UNCHANGED <<env, defaults, client, wu>>

register_signal(signal, response) ==
  /\ wu # NoObject
  /\ last' = register_signal_call(wu, signal, response)
  /\ UNCHANGED <<env, defaults, client, wu>>

activate_signal(signal, response) ==
  /\ wu # NoObject
  /\ last' = activate_signal_call(wu, signal, response)
  /\ UNCHANGED <<env, defaults, client, wu>>

deactivate_signal(signal, response) ==
  /\ wu # NoObject
  /\ last' = deactivate_signal_call(wu, signal, response)
  /\ UNCHANGED <<env, defaults, client, wu>>

check_signal_active(signal, deactivate, response) ==
  /\ wu # NoObject
  /\ last' = check_signal_active_call(wu, signal, deactivate, response)
  /\ UNCHANGED <<env, defaults, client, wu>>

create_artifact(filename, contents, response) ==
  /\ wu # NoObject
  /\ last' = create_artifact_call(wu, filename, contents, response)
  /\ UNCHANGED <<env, defaults, client, wu>>

create_artifact_from_file(filename, local_file, response) ==
  /\ wu # NoObject
  /\ last' = create_artifact_from_file_call(wu, filename, local_file, response)
  /\ UNCHANGED <<env, defaults, client, wu>>

create_artifact_from_directory(filename, local_directory, response) ==
  /\ wu # NoObject
  /\ last' = create_artifact_from_directory_call(wu, filename, local_directory, response)
  /\ UNCHANGED <<env, defaults, client, wu>>

Next ==
  \/ \E e \in Envs : setenv(e)
  \/ \E k \in ApiKeyArgs, ep \in EndpointArgs : WindmillClient_init(k, ep)
  \/ \E x \in XIDs, w \in WIDs, k \in ApiKeyArgs, ep \in EndpointArgs :
        WorkUnit_init(x, w, k, ep)
  \/ \E n \in Names, t \in TagLists, p \in ParameterArgs, r \in CreateResponses :
        create_experiment(n, t, p, r)
  \/ \E x \in XIDs, w \in WIDs, v \in BOOLEAN, r \in ExistsResponses :
        get_work_unit(x, w, v, r)
  \/ \E r \in ParameterResponses : get_parameters(r)
  \/ \E t \in Entries, r \in PlainResponses : add_diary_entry(t, r)
  \/ \E m \in Measurements, r \in PlainResponses : record_measurements(m, r)
  \/ \E r \in PlainResponses : complete(r)
  \/ \E r \in PlainResponses : complete_experiment(r)
  \/ \E g \in Signals, r \in PlainResponses : register_signal(g, r)
  \/ \E g \in Signals, r \in PlainResponses : activate_signal(g, r)
  \/ \E g \in Signals, r \in PlainResponses : deactivate_signal(g, r)
  \/ \E g \in Signals, d \in BOOLEAN, r \in ActiveResponses : check_signal_active(g, d, r)
  \/ \E f \in Filenames, c \in Contents, r \in PlainResponses : create_artifact(f, c, r)
  \/ \E f \in Filenames, c \in LocalFiles, r \in PlainResponses :
        create_artifact_from_file(f, c, r)
  \/ \E f \in Filenames, d \in LocalDirectories, r \in PlainResponses :
        create_artifact_from_directory(f, d, r)

Spec == Init /\ [][Next]_vars

(* ------------------------------ claims --------------------------------- *)

ClientMethods == {"create_experiment", "get_work_unit"}

WorkUnitMethods ==
  {"get_parameters", "add_diary_entry", "record_measurements", "complete",
   "complete_experiment", "register_signal", "activate_signal", "deactivate_signal",
   "check_signal_active", "create_artifact", "create_artifact_from_file",
   "create_artifact_from_directory"}

PublicMethods == ClientMethods \cup WorkUnitMethods

\* the handle a client method builds for (xid, wid)
HandleOf(c, xid, wid) ==
  [xid |-> xid, wid |-> wid, api_key |-> c.api_key, endpoint |-> c.endpoint]

\* C1: whenever a call received a response that is not ok, the call raised
\* WindmillClientError with the response body as message and returned nothing.
C1_NotOkRaisesWithBody ==
  \A i \in DOMAIN last.responses :
    ~last.responses[i].ok =>
      /\ last.outcome = "raise"
      /\ last.exc = WindmillClientError(last.responses[i].text)
      /\ last.ret = NoValue

C1_Witness ==
  /\ last.op = "check_signal_active"
  /\ Len(last.responses) = 1
  /\ ~last.responses[1].ok
  /\ last.responses[1].text = "Forbidden"
  /\ last.outcome = "raise"

\* C2: create_experiment on an ok response with N descriptors returns a single
\* WorkUnit when N = 1 and otherwise a list of N WorkUnits in response order,
\* each with the descriptor's xid and wid and the client's api_key and endpoint.
C2_CreateExperimentReturn ==
  last.op = "create_experiment" /\ last.outcome = "return" =>
    LET units == last.responses[1].json.work_units
    IN IF Len(units) = 1
         THEN /\ last.ret.tag = "WorkUnit"
              /\ last.ret.value = HandleOf(client, units[1].xid, units[1].wid)
         ELSE /\ last.ret.tag = "list"
              /\ Len(last.ret.value) = Len(units)
              /\ \A i \in 1..Len(units) :
                   last.ret.value[i] = HandleOf(client, units[i].xid, units[i].wid)

C2_Witness ==
  /\ last.op = "create_experiment"
  /\ last.outcome = "return"
  /\ Len(last.responses[1].json.work_units) = 1
  /\ last.ret.tag = "WorkUnit"
  /\ last.ret.value.wid = 2

\* C3: complete_experiment() sends the one POST complete() sends, to
\* <endpoint>/api/v0/complete_experiment with body {api_key, xid, wid}, and
\* returns normally.
C3_AliasSendsCompleteRequest ==
  last.op = "complete_experiment" =>
    /\ last.outcome = "return"
    /\ last.requests =
         <<Post(format_url(wu.endpoint, "/api/v0/complete_experiment"),
                [api_key |-> wu.api_key, xid |-> wu.xid, wid |-> wu.wid])>>

\* C4: every request a call sent carries the instance's api_key as a field of
\* its JSON body, multipart parts or query parameters.
C4_EveryRequestCarriesApiKey ==
  last.op \in PublicMethods =>
    LET self == IF last.op \in ClientMethods THEN client ELSE wu
    IN \A i \in DOMAIN last.requests :
         LET fields == IF last.requests[i].kind = "files"
                         THEN last.requests[i].body.meta.json_text_of
                         ELSE last.requests[i].body
         IN \/ /\ "api_key" \in DOMAIN last.requests[i].body
               /\ last.requests[i].body.api_key = self.api_key
            \/ /\ "api_key" \in DOMAIN fields
               /\ fields.api_key = self.api_key

\* C5: get_work_unit with verification sends exactly one GET to
\* verify_work_unit_exists with params {api_key, xid, wid}; on an ok response
\* with exists = False it raises WindmillClientError and returns no WorkUnit;
\* it returns the handle (xid, wid, client credentials) only on exists = True.
C5_GetWorkUnitVerified ==
  last.op = "get_work_unit" /\ last.args.verify_exists =>
    /\ last.requests =
         <<Get(format_url(client.endpoint, "/api/v0/verify_work_unit_exists"),
               [api_key |-> client.api_key, xid |-> last.args.xid,
                wid |-> last.args.wid])>>
    /\ Len(last.responses) = 1
    /\ (last.responses[1].ok /\ ~last.responses[1].json.exists =>
          /\ last.outcome = "raise"
          /\ last.exc.type = "WindmillClientError"
          /\ last.ret = NoValue)
    /\ (last.outcome = "return" =>
          /\ last.responses[1].ok
          /\ last.responses[1].json.exists
          /\ last.ret.tag = "WorkUnit"
          /\ last.ret.value = HandleOf(client, last.args.xid, last.args.wid))

C5_Witness ==
  /\ last.op = "get_work_unit"
  /\ last.args.verify_exists
  /\ Len(last.responses) = 1
  /\ last.responses[1].ok
  /\ ~last.responses[1].json.exists
  /\ last.outcome = "raise"

\* C6: get_work_unit with verify_exists = False sends no request and returns
\* the handle with the given xid and wid and the client's api_key and endpoint.
C6_GetWorkUnitUnverified ==
  last.op = "get_work_unit" /\ ~last.args.verify_exists =>
    /\ last.requests = <<>>
    /\ last.outcome = "return"
    /\ last.ret.tag = "WorkUnit"
    /\ last.ret.value = HandleOf(client, last.args.xid, last.args.wid)

C6_Witness ==
  /\ last.op = "get_work_unit"
  /\ ~last.args.verify_exists
  /\ last.outcome = "return"
  /\ last.ret.tag = "WorkUnit"
  /\ last.ret.value.xid = "some xid"

\* C7: the body of the create_experiment POST has api_key and name, has tags
\* exactly when the tags argument is non-empty, has parameters exactly when the
\* parameters argument is a non-empty list, and has no other field.
C7_CreateExperimentBody ==
  last.op = "create_experiment" =>
    /\ Len(last.requests) = 1
    /\ last.requests[1].method = "POST"
    /\ last.requests[1].kind = "json"
    /\ last.requests[1].url = format_url(client.endpoint, "/api/v0/create_experiment")
    /\ LET body == last.requests[1].body
           has_tags == Len(last.args.tags) > 0
           has_parameters ==
             ~last.args.parameters.is_none /\ Len(last.args.parameters.list) > 0
       IN /\ DOMAIN body = {"api_key", "name"}
                             \cup (IF has_tags THEN {"tags"} ELSE {})
                             \cup (IF has_parameters THEN {"parameters"} ELSE {})
          /\ body.api_key = client.api_key
          /\ body.name = last.args.experiment_name
          /\ (has_tags => body.tags = last.args.tags)
          /\ (has_parameters => body.parameters = last.args.parameters.list)

C7_Witness ==
  /\ last.op = "create_experiment"
  /\ Len(last.args.tags) = 0
  /\ ~last.args.parameters.is_none
  /\ Len(last.args.parameters.list) = 0
  /\ DOMAIN last.requests[1].body = {"api_key", "name"}

\* the credentials an instance gets when the environment e is read at the
\* moment of the constructor call
ResolvedAtConstruction(arg, e, name) ==
  IF arg # Omitted THEN arg
  ELSE IF name = "WINDMILLAI_ENDPOINT"
         THEN py_or(environ_get(e, name), WINDMILLAI_ENDPOINT)
         ELSE environ_get(e, name)

\* C8: a constructor call gives the instance the explicit argument when there
\* is one, and otherwise the value the environment holds at the moment of the
\* call (for the endpoint, the hardcoded host when that value is unset or empty).
C8_ResolvedAtConstruction ==
  [][ /\ \A k \in ApiKeyArgs, ep \in EndpointArgs :
           WindmillClient_init(k, ep) =>
             /\ client'.api_key = ResolvedAtConstruction(k, env, "WINDMILLAI_API_KEY")
             /\ client'.endpoint = ResolvedAtConstruction(ep, env, "WINDMILLAI_ENDPOINT")
      /\ \A x \in XIDs, w \in WIDs, k \in ApiKeyArgs, ep \in EndpointArgs :
           WorkUnit_init(x, w, k, ep) =>
             /\ wu'.api_key = ResolvedAtConstruction(k, env, "WINDMILLAI_API_KEY")
             /\ wu'.endpoint = ResolvedAtConstruction(ep, env, "WINDMILLAI_ENDPOINT")
    ]_vars

\* C9: no step changes the fields of an instance: the client changes only by
\* the construction of a new client, the work unit only by the construction
\* of a new handle (the constructor, or a handle a client method returned), and
\* an instance has no fields but those its constructor sets.
C9_InstancesImmutable ==
  [][ /\ (client' # client => last'.op = "WindmillClient.__init__")
      /\ (wu' # wu =>
            \/ last'.op = "WorkUnit.__init__"
            \/ last'.op \in ClientMethods /\ wu' \in Handles(last'.ret))
      /\ (client' # NoObject => DOMAIN client' = {"api_key", "endpoint"})
      /\ (wu' # NoObject => DOMAIN wu' = {"xid", "wid", "api_key", "endpoint"})
    ]_vars

C9_Witness ==
  /\ last.op = "get_parameters"
  /\ last.outcome = "return"
  /\ "rate" \in DOMAIN last.ret.value
  /\ DOMAIN wu = {"xid", "wid", "api_key", "endpoint"}

\* C10: every call of a public method, other than get_work_unit with
\* verify_exists = False, issues exactly one HTTP request.
C10_ExactlyOneRequest ==
  (/\ last.op \in PublicMethods
   /\ ~(last.op = "get_work_unit" /\ ~last.args.verify_exists))
    => Len(last.requests) = 1

====
